---- MODULE Spec2Model ----
(***************************************************************************)
(* Model of the model-pricing service of code-switch                       *)
(* (resources/model-pricing/price.go): the lazily built process-wide       *)
(* Service, its three data origins (disk cache, remote endpoint, embedded  *)
(* bundle), the timer-driven refresh and StopPeriodicUpdate; of the pure   *)
(* pricing functions of the same file (getPricing, CalculateCost and their *)
(* helpers); and of the retry wrapper RetryableRequest.                    *)
(*                                                                         *)
(* Time is counted in minutes.  A Service instance is a heap object: the   *)
(* sequence `services` holds, for every instance ever built, the bytes it  *)
(* was built from, and a *Service pointer is an index into it (0 is nil).  *)
(***************************************************************************)
EXTENDS Integers, FiniteSets, Sequences, TLC

\* ------------------------------------------------------------------ bounds
NumCallers == 2      \* goroutines that call DefaultService and CalculateCost
MaxSkew == 1         \* minutes startup may take before it schedules the refresh
MaxKeys == 2         \* entries of a pricing table
MaxSplit == 1        \* tokens in either part of a cache-creation split
NumHandlers == 2     \* runs of a handler of the settings page that can be in flight

\* --------------------------------------------------------------- constants
Minute == 1
Hour == 60 * Minute
updateInterval == 24 * Hour

Callers == 1 .. NumCallers
TimerIds == {1, 2}   \* the timer of startPeriodicUpdate and the one its callback arms
NilTimer == 0
NilService == 0

\* The bytes of the embedded bundle.
pricingFile == "embedded"

\* Bodies a 200 response of the remote endpoint may carry: not JSON at all,
\* a JSON object whose values are not pricing objects, a pricing table.
RemoteBodies == {"notjson", "badentries", "remote"}
\* Outcomes of one GET of remotePricingURL.
RemoteOutcomes == {"unreachable", "non200"} \cup RemoteBodies

\* Timestamps a cache file found at startup may hold (the clock starts at 0):
\* older than a day, exactly a day old, an hour old, an hour in the future.
CacheStamps == {0 - updateInterval - Minute, 0 - updateInterval, 0 - Hour, Hour}

\* The cache files startup may find: none that loadFromCache can read and
\* parse ("missing" stands for every failure before the expiry test), a
\* pricing table with each of the timestamps, and a fresh file whose "data"
\* member is not a pricing table.
NoCache == [kind |-> "missing", timestamp |-> 0, data |-> "none"]
InitCaches ==
    {NoCache}
    \cup {[kind |-> "ok", timestamp |-> t, data |-> "cached"] : t \in CacheStamps}
    \cup {[kind |-> "ok", timestamp |-> 0 - Hour, data |-> "badentries"]}

ZeroTime == [isZero |-> TRUE, at |-> 0]
TimeAt(t) == [isZero |-> FALSE, at |-> t]

VARIABLES
    now,             \* the wall clock, minutes
    cacheFile,       \* the disk cache file
    defaultOnce,     \* sync.Once: "new", "running", "done"
    defaultService,  \* *Service
    defaultErr,      \* error: TRUE when non-nil
    updateMutex,     \* sync.RWMutex: [readers, writer]
    lastUpdateTime,  \* time.Time
    updateTimer,     \* *time.Timer
    timers,          \* the time.Timer objects created so far
    services,        \* the Service instances built so far
    startup,         \* the goroutine inside defaultOnce.Do
    cb,              \* the goroutine running a timer callback
    caller,          \* the calling goroutines
    stop,            \* the goroutine calling StopPeriodicUpdate
    hist,            \* history of what has happened (observation only)
    calc,            \* one use of a Service: its table, a model, a usage, the results
    retry,           \* one call of RetryableRequest
    page             \* the settings page: its refs and its handlers in flight

vars == <<now, cacheFile, defaultOnce, defaultService, defaultErr, updateMutex,
          lastUpdateTime, updateTimer, timers, services, startup, cb, caller,
          stop, hist, calc, retry, page>>

\* The variables of the process-wide service.
svcVars == <<now, cacheFile, defaultOnce, defaultService, defaultErr, updateMutex,
             lastUpdateTime, updateTimer, timers, services, startup, cb, caller,
             stop, hist>>

\* ------------------------------------------------------------ pure helpers

\* What the history keeps of a GET: the body when the endpoint served a JSON
\* object, "failed" for every other outcome.
Served(outcome) ==
    IF outcome \in {"remote", "badentries"} THEN outcome ELSE "failed"

\* fetchRemotePricing: the bytes of a 200 response that unmarshals into a
\* map[string]interface{}; an error otherwise.
fetchRemotePricing(outcome) ==
    IF outcome \in {"remote", "badentries"}
    THEN [err |-> FALSE, data |-> outcome]
    ELSE [err |-> TRUE, data |-> "none"]

\* json.Unmarshal(data, &raw) of NewServiceFromData, raw a map[string]PricingEntry.
ParsesAsTable(data) == data \in {pricingFile, "cached", "remote"}

\* NewServiceFromData: the heap after the call, the pointer and the error.
NewServiceFromData(heap, data) ==
    IF ParsesAsTable(data)
    THEN [heap |-> Append(heap, data), svc |-> Len(heap) + 1, err |-> FALSE]
    ELSE [heap |-> heap, svc |-> NilService, err |-> TRUE]

\* time.Since(t)
Since(t) == now - t

\* A variant of the expiry test that lets a cache a minute too old through.
CacheExpiredLate(timestamp) == Since(timestamp) > updateInterval + Minute

\* The expiry test of loadFromCache.
CacheExpired(timestamp) == Since(timestamp) > updateInterval

\* loadFromCache: error unless the file exists, can be read, parses and is
\* not expired.
loadFromCache ==
    IF cacheFile.kind # "ok" \/ CacheExpired(cacheFile.timestamp)
    THEN [err |-> TRUE, data |-> "none", last |-> lastUpdateTime]
    ELSE [err |-> FALSE, data |-> cacheFile.data, last |-> TimeAt(cacheFile.timestamp)]

\* saveToCache: the file after the call; a failed write leaves it as it was.
saveToCache(data, written) ==
    IF written
    THEN [kind |-> "ok", timestamp |-> now, data |-> data]
    ELSE cacheFile

\* A variant of the delay that treats an unknown last update as an expired one.
NextUpdateUnknownSoon ==
    IF ~lastUpdateTime.isZero /\ Since(lastUpdateTime.at) < updateInterval
    THEN updateInterval - Since(lastUpdateTime.at)
    ELSE Minute

\* The delay startPeriodicUpdate computes for the first timer.
NextUpdate ==
    IF lastUpdateTime.isZero
    THEN updateInterval
    ELSE IF Since(lastUpdateTime.at) < updateInterval
         THEN updateInterval - Since(lastUpdateTime.at)
         ELSE Minute

\* -------------------------------------------------------------------- Init
NoTimer == [state |-> "unset", deadline |-> 0]
IdleCaller == [pc |-> "idle", svc |-> NilService, err |-> FALSE, epoch |-> 0,
               seen |-> {}, atStart |-> NilService]
\* No Service is in use, and no RetryableRequest call is made.
NoCalc == [pc |-> "off"]
NoRetry == [pc |-> "off"]
\* The settings page is not mounted.
NoPage == [mount |-> "off"]

Init ==
    /\ now = 0
    /\ cacheFile \in InitCaches
    /\ defaultOnce = "new"
    /\ defaultService = NilService
    /\ defaultErr = FALSE
    /\ updateMutex = [readers |-> {}, writer |-> FALSE]
    /\ lastUpdateTime = ZeroTime
    /\ updateTimer = NilTimer
    /\ timers = [i \in TimerIds |-> NoTimer]
    /\ services = <<>>
    /\ startup = [pc |-> "none", runner |-> 0]
    /\ cb = [pc |-> "idle", timer |-> NilTimer, data |-> "none", svc |-> NilService]
    /\ caller = [c \in Callers |-> IdleCaller]
    /\ stop = [pc |-> "idle", t |-> NilTimer]
    /\ hist = [startupRuns |-> 0, scheduleRuns |-> 0, origin |-> "none",
               consulted |-> <<>>, cacheFound |-> NoCache, cacheAge |-> 0,
               outcome |-> "none", installed |-> <<>>,
               schedNow |-> 0, schedLast |-> ZeroTime,
               ticks |-> 0, swaps |-> 0, tickOutcome |-> "none",
               snap |-> <<NilService, ZeroTime, NoCache>>, lateTick |-> FALSE]
    /\ calc = NoCalc
    /\ retry = NoRetry
    /\ page = NoPage

\* ------------------------------------------------- DefaultService: startup

\* A variant of Do whose test of the done flag is not atomic with setting it:
\* a caller that arrives while the function runs runs it too.
OnceDoRace(c) ==
    /\ caller[c].pc = "idle"
    /\ \/ /\ defaultOnce \in {"new", "running"}
          /\ defaultOnce' = "running"
          /\ startup' = [pc |-> "new", runner |-> c]
          /\ caller' = [caller EXCEPT ![c].pc = "startup"]
          /\ hist' = [hist EXCEPT !.startupRuns = @ + 1]
       \/ /\ defaultOnce = "done"
          /\ caller' = [caller EXCEPT ![c].pc = "rlock"]
          /\ UNCHANGED <<defaultOnce, startup, hist>>
    /\ UNCHANGED <<calc, retry, page, now, cacheFile, defaultService, defaultErr, updateMutex,
                   lastUpdateTime, updateTimer, timers, services, cb, stop>>

\* A variant of DefaultService without the Once: every call that finds no
\* startup running builds the service anew.
OnceDoAgain(c) ==
    /\ caller[c].pc = "idle"
    /\ defaultOnce \in {"new", "done"}
    /\ defaultOnce' = "running"
    /\ startup' = [pc |-> "new", runner |-> c]
    /\ caller' = [caller EXCEPT ![c].pc = "startup"]
    /\ hist' = [hist EXCEPT !.startupRuns = @ + 1]
    /\ UNCHANGED <<calc, retry, page, now, cacheFile, defaultService, defaultErr, updateMutex,
                   lastUpdateTime, updateTimer, timers, services, cb, stop>>

\* defaultOnce.Do: the first caller runs the function, a caller that arrives
\* while it runs blocks until it is done, a later caller passes through.
OnceDo(c) ==
    /\ caller[c].pc = "idle"
    /\ \/ /\ defaultOnce = "new"
          /\ defaultOnce' = "running"
          /\ startup' = [pc |-> "new", runner |-> c]
          /\ caller' = [caller EXCEPT ![c].pc = "startup"]
          /\ hist' = [hist EXCEPT !.startupRuns = @ + 1]
       \/ /\ defaultOnce = "done"
          /\ caller' = [caller EXCEPT ![c].pc = "rlock"]
          /\ UNCHANGED <<defaultOnce, startup, hist>>
    /\ UNCHANGED <<calc, retry, page, now, cacheFile, defaultService, defaultErr, updateMutex,
                   lastUpdateTime, updateTimer, timers, services, cb, stop>>

\* The origin NewServiceWithDynamicUpdate takes its bytes from, lines 118-133:
\* the cache when loadFromCache succeeds, else the remote endpoint when the
\* fetch succeeds, else the embedded bundle.
ResolveData(outcome) ==
    LET c == loadFromCache
        r == fetchRemotePricing(outcome)
    IN  IF ~c.err THEN [origin |-> "cache", data |-> c.data, last |-> c.last,
                        consulted |-> <<"cache">>]
        ELSE IF ~r.err THEN [origin |-> "remote", data |-> r.data, last |-> TimeAt(now),
                             consulted |-> <<"cache", "remote">>]
        ELSE [origin |-> "embedded", data |-> pricingFile, last |-> lastUpdateTime,
              consulted |-> <<"cache", "remote", "embedded">>]

\* DefaultService, lines 99-100, with NewServiceWithDynamicUpdate inlined:
\* resolve the bytes (a remote fetch is saved to the cache, best effort, and
\* stamps lastUpdateTime), then
\* defaultService, defaultErr = NewServiceFromData(data); on an error the
\* function passed to Do returns without scheduling anything.
NewServiceWithDynamicUpdate ==
    /\ startup.pc = "new"
    /\ \E outcome \in RemoteOutcomes, written \in BOOLEAN :
          LET d == ResolveData(outcome)
              r == NewServiceFromData(services, d.data)
          IN  /\ d.origin # "remote" => written
              /\ d.origin = "cache" => outcome = "unreachable"
              /\ cacheFile' = IF d.origin = "remote"
                              THEN saveToCache(d.data, written) ELSE cacheFile
              /\ lastUpdateTime' = d.last
              /\ services' = r.heap
              /\ defaultService' = r.svc
              /\ defaultErr' = r.err
              /\ hist' = [hist EXCEPT !.origin = d.origin,
                                      !.consulted = d.consulted,
                                      !.cacheFound = cacheFile,
                                      !.cacheAge = Since(cacheFile.timestamp),
                                      !.outcome = IF d.origin = "cache"
                                                  THEN "none" ELSE Served(outcome),
                                      !.installed = Append(@, r.svc)]
              /\ IF r.err
                 THEN /\ defaultOnce' = "done"
                      /\ startup' = [pc |-> "end", runner |-> 0]
                      /\ caller' = [caller EXCEPT ![startup.runner].pc = "rlock"]
                 ELSE /\ startup' = [startup EXCEPT !.pc = "schedule"]
                      /\ UNCHANGED <<defaultOnce, caller>>
    /\ UNCHANGED <<calc, retry, page, now, updateMutex, updateTimer, timers, cb, stop>>

\* startPeriodicUpdate: arm the first timer; Do returns.
startPeriodicUpdate ==
    /\ startup.pc = "schedule"
    /\ timers' = [timers EXCEPT ![1] = [state |-> "armed", deadline |-> now + NextUpdate]]
    /\ updateTimer' = 1
    /\ defaultOnce' = "done"
    /\ startup' = [pc |-> "end", runner |-> 0]
    /\ caller' = [caller EXCEPT ![startup.runner].pc = "rlock"]
    /\ hist' = [hist EXCEPT !.scheduleRuns = @ + 1, !.schedNow = now,
                            !.schedLast = lastUpdateTime]
    /\ UNCHANGED <<calc, retry, page, now, cacheFile, defaultService, defaultErr, updateMutex,
                   lastUpdateTime, services, cb, stop>>

\* ---------------------------------------------- DefaultService: the return

\* updateMutex.RLock()
RLock(c) ==
    /\ caller[c].pc = "rlock"
    /\ ~updateMutex.writer
    /\ updateMutex' = [updateMutex EXCEPT !.readers = @ \cup {c}]
    /\ caller' = [caller EXCEPT ![c].pc = "rlocked"]
    /\ UNCHANGED <<calc, retry, page, now, cacheFile, defaultOnce, defaultService, defaultErr,
                   lastUpdateTime, updateTimer, timers, services, startup, cb,
                   stop, hist>>

\* return defaultService, defaultErr, and the deferred RUnlock
DefaultServiceReturn(c) ==
    /\ caller[c].pc = "rlocked"
    /\ updateMutex' = [updateMutex EXCEPT !.readers = @ \ {c}]
    /\ caller' = [caller EXCEPT ![c].pc = "got", ![c].svc = defaultService,
                                ![c].err = defaultErr, ![c].epoch = hist.swaps]
    /\ UNCHANGED <<calc, retry, page, now, cacheFile, defaultOnce, defaultService, defaultErr,
                   lastUpdateTime, updateTimer, timers, services, startup, cb,
                   stop, hist>>

\* ------------------------------------------------------------ CalculateCost

\* A variant of the lookups that goes to the process-wide pointer each time.
ReceiverGlobal(c) == defaultService

\* The Service a lookup of CalculateCost reads: the receiver s.
Receiver(c) == caller[c].svc

\* CalculateCost up to s.getPricing(model), which reads s.pricingMap and
\* s.normalized: a nil receiver returns the zero breakdown; so does a model
\* that is not resolved and has no [1m] marker.
CalculateCost(c) ==
    /\ caller[c].pc = "got"
    /\ IF caller[c].svc = NilService
       THEN caller' = [caller EXCEPT ![c].pc = "done"]
       ELSE \E goesOn \in BOOLEAN :
               caller' = [caller EXCEPT
                             ![c].pc = IF goesOn THEN "tiers" ELSE "done",
                             ![c].seen = {Receiver(c)},
                             ![c].atStart = defaultService]
    /\ UNCHANGED <<calc, retry, page, now, cacheFile, defaultOnce, defaultService, defaultErr,
                   updateMutex, lastUpdateTime, updateTimer, timers, services,
                   startup, cb, stop, hist>>

\* The rest of CalculateCost: s.longContextTier(model, usage) reads
\* s.longContexts, s.getEphemeral1hPricing(model) reads s.ephemeral1h, and the
\* breakdown is returned.
CalculateCostTiers(c) ==
    /\ caller[c].pc = "tiers"
    /\ caller' = [caller EXCEPT ![c].pc = "done",
                                ![c].seen = @ \cup {Receiver(c)}]
    /\ UNCHANGED <<calc, retry, page, now, cacheFile, defaultOnce, defaultService, defaultErr,
                   updateMutex, lastUpdateTime, updateTimer, timers, services,
                   startup, cb, stop, hist>>

\* ------------------------------------------------------- the timer callback

\* A variant of the first half of updatePricingData that does not test the
\* error of NewServiceFromData.
UpdateBuildUnchecked(outcome) ==
    LET f == fetchRemotePricing(outcome)
        r == NewServiceFromData(services, f.data)
    IN  [failed |-> f.err, heap |-> r.heap, data |-> f.data, svc |-> r.svc]

\* updatePricingData, lines 480-491: fetch the remote bytes and build a new
\* Service from them; either error makes the function return.
UpdateBuild(outcome) ==
    LET f == fetchRemotePricing(outcome)
        r == NewServiceFromData(services, f.data)
    IN  [failed |-> f.err \/ r.err, heap |-> r.heap, data |-> f.data, svc |-> r.svc]

\* Where a callback continues when updatePricingData returns: the callback
\* of the first timer arms the second one, the callback of the second ends.
AfterUpdate(timer) == IF timer = 1 THEN "rearm" ELSE "idle"

\* The clock when the callback of a timer runs: time has passed until the
\* timer was due.
FireTime(t) == IF now < timers[t].deadline THEN timers[t].deadline ELSE now

\* The runtime runs the callback of an armed timer when its time has come, and
\* the callback calls updatePricingData, which returns when UpdateBuild fails.
\* No time passes inside a call of StopPeriodicUpdate.
TimerFire(t) ==
    /\ timers[t].state = "armed"
    /\ now < timers[t].deadline => stop.pc # "stopping"
    /\ cb.pc = "idle"
    /\ now' = FireTime(t)
    /\ timers' = [timers EXCEPT ![t].state = "fired"]
    /\ \E outcome \in RemoteOutcomes :
          LET u == UpdateBuild(outcome)
          IN  /\ services' = u.heap
              /\ cb' = IF u.failed
                       THEN [cb EXCEPT !.pc = AfterUpdate(t), !.timer = t]
                       ELSE [pc |-> "lock", timer |-> t, data |-> u.data, svc |-> u.svc]
              /\ hist' = [hist EXCEPT !.ticks = @ + 1, !.tickOutcome = Served(outcome),
                             !.snap = <<defaultService, lastUpdateTime, cacheFile>>,
                             !.lateTick = @ \/ stop.pc = "returned"]
    /\ UNCHANGED <<calc, retry, page, cacheFile, defaultOnce, defaultService, defaultErr,
                   updateMutex, lastUpdateTime, updateTimer, startup, caller, stop>>

\* updateMutex.Lock()
TickLock ==
    /\ cb.pc = "lock"
    /\ updateMutex.readers = {}
    /\ ~updateMutex.writer
    /\ updateMutex' = [updateMutex EXCEPT !.writer = TRUE]
    /\ cb' = [cb EXCEPT !.pc = "swap"]
    /\ UNCHANGED <<calc, retry, page, now, cacheFile, defaultOnce, defaultService, defaultErr,
                   lastUpdateTime, updateTimer, timers, services, startup,
                   caller, stop, hist>>

\* A variant of updatePricingData that saves to the cache first and gives up,
\* leaving the pointer and the stamp as they were, when the save fails.
TickSwapSaveFirst ==
    /\ cb.pc = "swap"
    /\ \E written \in BOOLEAN :
          /\ cacheFile' = saveToCache(cb.data, written)
          /\ defaultService' = IF written THEN cb.svc ELSE defaultService
          /\ lastUpdateTime' = IF written THEN TimeAt(now) ELSE lastUpdateTime
    /\ updateMutex' = [updateMutex EXCEPT !.writer = FALSE]
    /\ cb' = [cb EXCEPT !.pc = AfterUpdate(cb.timer), !.data = "none",
                        !.svc = NilService]
    /\ hist' = [hist EXCEPT !.swaps = @ + 1, !.installed = Append(@, cb.svc)]
    /\ UNCHANGED <<calc, retry, page, now, defaultOnce, defaultErr, updateTimer, timers,
                   services, startup, caller, stop>>

\* A variant of the swap that stamps the time and saves the bytes but leaves
\* the process-wide pointer as it was.
TickSwapUnpublished ==
    /\ cb.pc = "swap"
    /\ lastUpdateTime' = TimeAt(now)
    /\ updateMutex' = [updateMutex EXCEPT !.writer = FALSE]
    /\ \E written \in BOOLEAN : cacheFile' = saveToCache(cb.data, written)
    /\ cb' = [cb EXCEPT !.pc = AfterUpdate(cb.timer), !.data = "none",
                        !.svc = NilService]
    /\ hist' = [hist EXCEPT !.swaps = @ + 1, !.installed = Append(@, cb.svc)]
    /\ UNCHANGED <<calc, retry, page, now, defaultOnce, defaultService, defaultErr, updateTimer,
                   timers, services, startup, caller, stop>>

\* updatePricingData, lines 495-502: the swap, updateMutex.Unlock(), and then
\* saveToCache(data), best effort; the function returns.
TickSwap ==
    /\ cb.pc = "swap"
    /\ defaultService' = cb.svc
    /\ lastUpdateTime' = TimeAt(now)
    /\ updateMutex' = [updateMutex EXCEPT !.writer = FALSE]
    /\ \E written \in BOOLEAN : cacheFile' = saveToCache(cb.data, written)
    /\ cb' = [cb EXCEPT !.pc = AfterUpdate(cb.timer), !.data = "none",
                        !.svc = NilService]
    /\ hist' = [hist EXCEPT !.swaps = @ + 1, !.installed = Append(@, cb.svc)]
    /\ UNCHANGED <<calc, retry, page, now, defaultOnce, defaultErr, updateTimer, timers, services,
                   startup, caller, stop>>

\* startPeriodicUpdate, lines 470-472: the callback of the first timer arms
\* a second timer, whose callback only calls updatePricingData.
TickRearm ==
    /\ cb.pc = "rearm"
    /\ timers' = [timers EXCEPT ![2] = [state |-> "armed",
                                        deadline |-> now + updateInterval]]
    /\ updateTimer' = 2
    /\ cb' = [cb EXCEPT !.pc = "idle"]
    /\ UNCHANGED <<calc, retry, page, now, cacheFile, defaultOnce, defaultService, defaultErr,
                   updateMutex, lastUpdateTime, services, startup, caller,
                   stop, hist>>

\* ------------------------------------------------------ StopPeriodicUpdate

\* line 509: if updateTimer != nil.  A call that finds updateTimer nil returns
\* without any effect, so only the call that finds a timer is followed.
StopCheck ==
    /\ stop.pc = "idle"
    /\ updateTimer # NilTimer
    /\ stop' = [pc |-> "stopping", t |-> updateTimer]
    /\ UNCHANGED <<calc, retry, page, now, cacheFile, defaultOnce, defaultService, defaultErr,
                   updateMutex, lastUpdateTime, updateTimer, timers, services,
                   startup, cb, caller, hist>>

\* lines 510-511: updateTimer.Stop(); updateTimer = nil.  updateTimer is read
\* without synchronisation: the timer stopped is the one seen by the test or
\* the one a callback has stored since.
StopAct ==
    /\ stop.pc = "stopping"
    /\ \E t \in {stop.t, updateTimer} \ {NilTimer} :
          timers' = [timers EXCEPT ![t].state =
                        IF @ = "armed" THEN "stopped" ELSE @]
    /\ updateTimer' = NilTimer
    /\ stop' = [stop EXCEPT !.pc = "returned"]
    /\ UNCHANGED <<calc, retry, page, now, cacheFile, defaultOnce, defaultService, defaultErr,
                   updateMutex, lastUpdateTime, services, startup, cb, caller,
                   hist>>

\* ---------------------------------------------------------------- the clock

\* Time passes between NewServiceWithDynamicUpdate and startPeriodicUpdate.
ClockTick ==
    /\ startup.pc = "schedule"
    /\ now < MaxSkew
    /\ now' = now + MaxSkew * Minute
    /\ UNCHANGED <<calc, retry, page, cacheFile, defaultOnce, defaultService, defaultErr,
                   updateMutex, lastUpdateTime, updateTimer, timers, services,
                   startup, cb, caller, stop, hist>>

\* ------------------------------------------------------------ specification
Next ==
    \/ \E c \in Callers : OnceDo(c)
    \/ NewServiceWithDynamicUpdate
    \/ startPeriodicUpdate
    \/ \E c \in Callers : RLock(c)
    \/ \E c \in Callers : DefaultServiceReturn(c)
    \/ \E c \in Callers : CalculateCost(c)
    \/ \E c \in Callers : CalculateCostTiers(c)
    \/ \E t \in TimerIds : TimerFire(t)
    \/ TickLock
    \/ TickSwap
    \/ TickRearm
    \/ StopCheck
    \/ StopAct
    \/ ClockTick

Spec == Init /\ [][Next]_vars

\* =========================================================================
\* The pricing functions: getPricing, CalculateCost and their helpers.
\*
\* A string is the sequence of its characters.  A cost or a rate is a whole
\* number of nano-dollars (1e-9 USD), so 0.000003 USD per token is 3000.
\* =========================================================================

\* -------------------------------------------------------------------- strings
\* The lower-case letter of every upper-case letter.
LowerCase ==
       "A" :> "a" @@ "B" :> "b" @@ "C" :> "c" @@ "D" :> "d" @@ "E" :> "e" @@ "F" :> "f"
    @@ "G" :> "g" @@ "H" :> "h" @@ "I" :> "i" @@ "J" :> "j" @@ "K" :> "k" @@ "L" :> "l"
    @@ "M" :> "m" @@ "N" :> "n" @@ "O" :> "o" @@ "P" :> "p" @@ "Q" :> "q" @@ "R" :> "r"
    @@ "S" :> "s" @@ "T" :> "t" @@ "U" :> "u" @@ "V" :> "v" @@ "W" :> "w" @@ "X" :> "x"
    @@ "Y" :> "y" @@ "Z" :> "z"

\* strings.ToLower
ToLower(str) ==
    [i \in 1 .. Len(str) |->
        IF str[i] \in DOMAIN LowerCase THEN LowerCase[str[i]] ELSE str[i]]

\* strings.HasPrefix, strings.TrimPrefix, strings.Contains
HasPrefix(str, prefix) ==
    Len(str) >= Len(prefix) /\ SubSeq(str, 1, Len(prefix)) = prefix
TrimPrefix(str, prefix) ==
    IF HasPrefix(str, prefix) THEN SubSeq(str, Len(prefix) + 1, Len(str)) ELSE str
Contains(str, substr) ==
    \E i \in 0 .. Len(str) - Len(substr) : SubSeq(str, i + 1, i + Len(substr)) = substr

\* nameReplacer: "-", "_", ".", ":", "/" and " " are replaced by nothing.
Separators == {"-", "_", ".", ":", "/", " "}
IsKept(ch) == ch \notin Separators
nameReplacer(str) == SelectSeq(str, IsKept)

\* normalizeName
normalizeName(name) == nameReplacer(ToLower(name))

RegionPrefixes == <<<<"u", "s", ".">>, <<"e", "u", ".">>, <<"a", "p", "a", "c", ".">>>>

\* stripRegionPrefix: the first prefix the lower-cased name starts with is cut
\* off the name itself.
stripRegionPrefix(name) ==
    LET hits == {i \in 1 .. Len(RegionPrefixes) : HasPrefix(ToLower(name), RegionPrefixes[i])}
    IN  IF hits = {} THEN name
        ELSE LET first == CHOOSE i \in hits : \A j \in hits : i <= j
             IN  SubSeq(name, Len(RegionPrefixes[first]) + 1, Len(name))

EmptyName == <<>>
Gpt5Codex == <<"g", "p", "t", "-", "5", "-", "c", "o", "d", "e", "x">>
Gpt5 == <<"g", "p", "t", "-", "5">>
AnthropicPrefix == <<"a", "n", "t", "h", "r", "o", "p", "i", "c", ".">>
Marker1m == <<"[", "1", "m", "]">>
Opus == <<"o", "p", "u", "s">>
Sonnet == <<"s", "o", "n", "n", "e", "t">>
Haiku == <<"h", "a", "i", "k", "u">>

\* ---------------------------------------------------------------- the tables

\* buildEphemeral1hPricing
buildEphemeral1hPricing ==
       <<"c", "l", "a", "u", "d", "e", "-", "o", "p", "u", "s", "-", "4", "-", "1">> :> 30000
    @@ <<"c", "l", "a", "u", "d", "e", "-", "o", "p", "u", "s", "-", "4", "-", "1", "-", "2", "0", "2", "5", "0", "8", "0", "5">> :> 30000
    @@ <<"c", "l", "a", "u", "d", "e", "-", "o", "p", "u", "s", "-", "4">> :> 30000
    @@ <<"c", "l", "a", "u", "d", "e", "-", "o", "p", "u", "s", "-", "4", "-", "2", "0", "2", "5", "0", "5", "1", "4">> :> 30000
    @@ <<"c", "l", "a", "u", "d", "e", "-", "o", "p", "u", "s", "-", "4", "-", "5", "-", "2", "0", "2", "5", "1", "1", "0", "1">> :> 30000
    @@ <<"c", "l", "a", "u", "d", "e", "-", "3", "-", "o", "p", "u", "s">> :> 30000
    @@ <<"c", "l", "a", "u", "d", "e", "-", "3", "-", "o", "p", "u", "s", "-", "l", "a", "t", "e", "s", "t">> :> 30000
    @@ <<"c", "l", "a", "u", "d", "e", "-", "3", "-", "o", "p", "u", "s", "-", "2", "0", "2", "4", "0", "2", "2", "9">> :> 30000
    @@ <<"c", "l", "a", "u", "d", "e", "-", "3", "-", "5", "-", "s", "o", "n", "n", "e", "t">> :> 6000
    @@ <<"c", "l", "a", "u", "d", "e", "-", "3", "-", "5", "-", "s", "o", "n", "n", "e", "t", "-", "l", "a", "t", "e", "s", "t">> :> 6000
    @@ <<"c", "l", "a", "u", "d", "e", "-", "3", "-", "5", "-", "s", "o", "n", "n", "e", "t", "-", "2", "0", "2", "4", "1", "0", "2", "2">> :> 6000
    @@ <<"c", "l", "a", "u", "d", "e", "-", "3", "-", "5", "-", "s", "o", "n", "n", "e", "t", "-", "2", "0", "2", "4", "0", "6", "2", "0">> :> 6000
    @@ <<"c", "l", "a", "u", "d", "e", "-", "3", "-", "s", "o", "n", "n", "e", "t">> :> 6000
    @@ <<"c", "l", "a", "u", "d", "e", "-", "3", "-", "s", "o", "n", "n", "e", "t", "-", "2", "0", "2", "4", "0", "3", "0", "7">> :> 6000
    @@ <<"c", "l", "a", "u", "d", "e", "-", "s", "o", "n", "n", "e", "t", "-", "3">> :> 6000
    @@ <<"c", "l", "a", "u", "d", "e", "-", "s", "o", "n", "n", "e", "t", "-", "3", "-", "5">> :> 6000
    @@ <<"c", "l", "a", "u", "d", "e", "-", "s", "o", "n", "n", "e", "t", "-", "3", "-", "7">> :> 6000
    @@ <<"c", "l", "a", "u", "d", "e", "-", "s", "o", "n", "n", "e", "t", "-", "4">> :> 6000
    @@ <<"c", "l", "a", "u", "d", "e", "-", "s", "o", "n", "n", "e", "t", "-", "4", "-", "2", "0", "2", "5", "0", "5", "1", "4">> :> 6000
    @@ <<"c", "l", "a", "u", "d", "e", "-", "3", "-", "5", "-", "h", "a", "i", "k", "u">> :> 1600
    @@ <<"c", "l", "a", "u", "d", "e", "-", "3", "-", "5", "-", "h", "a", "i", "k", "u", "-", "l", "a", "t", "e", "s", "t">> :> 1600
    @@ <<"c", "l", "a", "u", "d", "e", "-", "3", "-", "5", "-", "h", "a", "i", "k", "u", "-", "2", "0", "2", "4", "1", "0", "2", "2">> :> 1600
    @@ <<"c", "l", "a", "u", "d", "e", "-", "3", "-", "h", "a", "i", "k", "u">> :> 1600
    @@ <<"c", "l", "a", "u", "d", "e", "-", "3", "-", "h", "a", "i", "k", "u", "-", "2", "0", "2", "4", "0", "3", "0", "7">> :> 1600
    @@ <<"c", "l", "a", "u", "d", "e", "-", "h", "a", "i", "k", "u", "-", "3">> :> 1600
    @@ <<"c", "l", "a", "u", "d", "e", "-", "h", "a", "i", "k", "u", "-", "3", "-", "5">> :> 1600

\* buildLongContextPricing
buildLongContextPricing ==
    <<"c", "l", "a", "u", "d", "e", "-", "s", "o", "n", "n", "e", "t", "-", "4", "-", "2", "0", "2", "5", "0", "5", "1", "4", "[", "1", "m", "]">> :> [Input |-> 6000, Output |-> 22500]

\* A PricingEntry, with the fields CalculateCost reads.
PricingEntry(input, output, cacheCreation, cacheRead) ==
    [InputCostPerToken |-> input, OutputCostPerToken |-> output,
     CacheCreationInputTokenCost |-> cacheCreation,
     CacheReadInputTokenCost |-> cacheRead]
ZeroEntry == PricingEntry(0, 0, 0, 0)

\* A variant of ensureCachePricing that derives both cache rates of every
\* entry with a positive input rate, whatever rates the entry came with.
ensureCachePricingAlways(entry) ==
    LET derive == entry.InputCostPerToken > 0
    IN  [entry EXCEPT
           !.CacheCreationInputTokenCost =
               IF derive THEN (entry.InputCostPerToken * 125) \div 100 ELSE @,
           !.CacheReadInputTokenCost =
               IF derive THEN (entry.InputCostPerToken * 10) \div 100 ELSE @]

\* ensureCachePricing: a zero cache rate of an entry with a positive input
\* rate becomes 1.25 times, respectively 0.1 times, the input rate.
ensureCachePricing(entry) ==
    LET derive == entry.InputCostPerToken > 0
    IN  [entry EXCEPT
           !.CacheCreationInputTokenCost =
               IF @ = 0 /\ derive THEN (entry.InputCostPerToken * 125) \div 100 ELSE @,
           !.CacheReadInputTokenCost =
               IF @ = 0 /\ derive THEN (entry.InputCostPerToken * 10) \div 100 ELSE @]

\* A *PricingEntry: nil, or the entry stored in the pricing map under a key.
NilEntry == [nil |-> TRUE, key |-> EmptyName]
EntryOf(key) == [nil |-> FALSE, key |-> key]

\* A *Service: nil, or the tables NewServiceFromData builds.
NilTables == [nil |-> TRUE]

\* A variant of NewServiceFromData whose normalized index holds the normalized
\* name itself in place of the key it stands for.
NewServiceTablesIndexOfNames(raw) ==
    LET norms == {normalizeName(key) : key \in DOMAIN raw}
    IN  {[nil |-> FALSE,
          pricingMap |-> [key \in DOMAIN raw |-> ensureCachePricing(raw[key])],
          normalized |-> [n \in norms |-> n]]}

\* NewServiceFromData, lines 144-160: the Services the loop over the raw map
\* can build.  Every entry goes through ensureCachePricing; the normalized
\* index keeps, for each normalized name, the key the loop meets first, and
\* the loop meets the keys of a Go map in any order.  The fields ephemeral1h
\* and longContexts are the same fixed tables in every Service:
\* buildEphemeral1hPricing and buildLongContextPricing are read in their place.
NewServiceTables(raw) ==
    LET norms == {normalizeName(key) : key \in DOMAIN raw}
    IN  {[nil |-> FALSE,
          pricingMap |-> [key \in DOMAIN raw |-> ensureCachePricing(raw[key])],
          normalized |-> normalized] :
            normalized \in {f \in [norms -> DOMAIN raw] :
                               \A n \in norms : normalizeName(f[n]) = n}}

\* s.pricingMap[key] of a Go map: nil when the key is absent.
Lookup(s, key) == IF key \in DOMAIN s.pricingMap THEN EntryOf(key) ELSE NilEntry

NotFound == [entry |-> NilEntry, found |-> FALSE]
Found(entry) == [entry |-> entry, found |-> TRUE]

\* The keys the loop of lines 223-228 can return: the loop meets the keys in
\* any order and returns at the first whose normalized form contains the
\* normalized target or is contained in it.
ScanHits(s, model) ==
    {key \in DOMAIN s.pricingMap :
        \/ Contains(normalizeName(key), normalizeName(model))
        \/ Contains(normalizeName(model), normalizeName(key))}

\* A variant of getPricing that consults the normalized index before it
\* strips any prefix.
getPricingIndexFirst(s, model) ==
    LET withoutRegion == stripRegionPrefix(model)
        withoutProvider == TrimPrefix(withoutRegion, AnthropicPrefix)
        normalizedTarget == normalizeName(model)
    IN  IF model = EmptyName THEN {NotFound}
        ELSE IF model \in DOMAIN s.pricingMap THEN {Found(EntryOf(model))}
        ELSE IF model = Gpt5Codex /\ Gpt5 \in DOMAIN s.pricingMap
             THEN {Found(EntryOf(Gpt5))}
        ELSE IF normalizedTarget \in DOMAIN s.normalized
             THEN {Found(Lookup(s, s.normalized[normalizedTarget]))}
        ELSE IF withoutRegion \in DOMAIN s.pricingMap
             THEN {Found(EntryOf(withoutRegion))}
        ELSE IF withoutProvider \in DOMAIN s.pricingMap
             THEN {Found(EntryOf(withoutProvider))}
        ELSE IF ScanHits(s, model) # {}
             THEN {Found(EntryOf(key)) : key \in ScanHits(s, model)}
        ELSE {NotFound}

\* getPricing: the results (entry, found) a call can return.
getPricing(s, model) ==
    LET withoutRegion == stripRegionPrefix(model)
        withoutProvider == TrimPrefix(withoutRegion, AnthropicPrefix)
        normalizedTarget == normalizeName(model)
    IN  IF model = EmptyName THEN {NotFound}
        ELSE IF model \in DOMAIN s.pricingMap THEN {Found(EntryOf(model))}
        ELSE IF model = Gpt5Codex /\ Gpt5 \in DOMAIN s.pricingMap
             THEN {Found(EntryOf(Gpt5))}
        ELSE IF withoutRegion \in DOMAIN s.pricingMap
             THEN {Found(EntryOf(withoutRegion))}
        ELSE IF withoutProvider \in DOMAIN s.pricingMap
             THEN {Found(EntryOf(withoutProvider))}
        ELSE IF normalizedTarget \in DOMAIN s.normalized
             THEN {Found(Lookup(s, s.normalized[normalizedTarget]))}
        ELSE IF ScanHits(s, model) # {}
             THEN {Found(EntryOf(key)) : key \in ScanHits(s, model)}
        ELSE {NotFound}

\* The total above which the long-context tier applies.
LongContextThreshold == 200000
ZeroTier == [Input |-> 0, Output |-> 0]

\* A variant of the tier test that already applies at the threshold.
longContextTierAtThreshold(s, model, usage) ==
    LET totalInput == usage.InputTokens + usage.CacheCreateTokens + usage.CacheReadTokens
    IN  IF /\ Contains(ToLower(model), Marker1m)
           /\ totalInput >= LongContextThreshold
           /\ DOMAIN buildLongContextPricing # {}
        THEN IF model \in DOMAIN buildLongContextPricing
             THEN {[tier |-> buildLongContextPricing[model], useLong |-> TRUE]}
             ELSE {[tier |-> buildLongContextPricing[key], useLong |-> TRUE] :
                      key \in DOMAIN buildLongContextPricing}
        ELSE {[tier |-> ZeroTier, useLong |-> FALSE]}

\* longContextTier: the results (tier, useLong) a call can return; without an
\* exact match the tier is any one of the table.
longContextTier(s, model, usage) ==
    LET totalInput == usage.InputTokens + usage.CacheCreateTokens + usage.CacheReadTokens
    IN  IF /\ Contains(ToLower(model), Marker1m)
           /\ totalInput > LongContextThreshold
           /\ DOMAIN buildLongContextPricing # {}
        THEN IF model \in DOMAIN buildLongContextPricing
             THEN {[tier |-> buildLongContextPricing[model], useLong |-> TRUE]}
             ELSE {[tier |-> buildLongContextPricing[key], useLong |-> TRUE] :
                      key \in DOMAIN buildLongContextPricing}
        ELSE {[tier |-> ZeroTier, useLong |-> FALSE]}

\* A variant of getEphemeral1hPricing that tests the families in the order
\* haiku, sonnet, opus.
getEphemeral1hPricingHaikuFirst(s, model) ==
    IF model \in DOMAIN buildEphemeral1hPricing THEN buildEphemeral1hPricing[model]
    ELSE IF Contains(ToLower(model), Haiku) THEN 1600
    ELSE IF Contains(ToLower(model), Sonnet) THEN 6000
    ELSE IF Contains(ToLower(model), Opus) THEN 30000
    ELSE 0

\* getEphemeral1hPricing
getEphemeral1hPricing(s, model) ==
    IF model \in DOMAIN buildEphemeral1hPricing THEN buildEphemeral1hPricing[model]
    ELSE IF Contains(ToLower(model), Opus) THEN 30000
    ELSE IF Contains(ToLower(model), Sonnet) THEN 6000
    ELSE IF Contains(ToLower(model), Haiku) THEN 1600
    ELSE 0

\* A *CacheCreationDetail
NilDetail == [nil |-> TRUE, Ephemeral5mTokens |-> 0, Ephemeral1hTokens |-> 0]
Detail(five, one) == [nil |-> FALSE, Ephemeral5mTokens |-> five, Ephemeral1hTokens |-> one]

\* A variant of resolveCacheTokens that forgets the tokens the split leaves out.
resolveCacheTokensSplitOnly(usage) ==
    IF usage.CacheCreation.nil
    THEN [fiveMin |-> usage.CacheCreateTokens, oneHour |-> 0]
    ELSE LET five == usage.CacheCreation.Ephemeral5mTokens
             one == usage.CacheCreation.Ephemeral1hTokens
         IN  [fiveMin |-> IF five < 0 THEN 0 ELSE five,
              oneHour |-> IF one < 0 THEN 0 ELSE one]

\* resolveCacheTokens
resolveCacheTokens(usage) ==
    IF usage.CacheCreation.nil
    THEN [fiveMin |-> usage.CacheCreateTokens, oneHour |-> 0]
    ELSE LET one == usage.CacheCreation.Ephemeral1hTokens
             remaining == usage.CacheCreateTokens
                             - usage.CacheCreation.Ephemeral5mTokens - one
             five == IF remaining > 0
                     THEN usage.CacheCreation.Ephemeral5mTokens + remaining
                     ELSE usage.CacheCreation.Ephemeral5mTokens
         IN  [fiveMin |-> IF five < 0 THEN 0 ELSE five,
              oneHour |-> IF one < 0 THEN 0 ELSE one]

\* CostBreakdown{}
ZeroBreakdown ==
    [InputCost |-> 0, OutputCost |-> 0, CacheCreateCost |-> 0, CacheReadCost |-> 0,
     Ephemeral5mCost |-> 0, Ephemeral1hCost |-> 0, TotalCost |-> 0,
     HasPricing |-> FALSE, IsLongContext |-> FALSE]

\* A variant of the end of CalculateCost that leaves HasPricing as getPricing
\* gave it.
WithHasPricingAsFound(breakdown) == breakdown

\* CalculateCost, lines 193-195: a positive total sets HasPricing.
WithHasPricing(breakdown) ==
    IF breakdown.TotalCost > 0 THEN [breakdown EXCEPT !.HasPricing = TRUE]
    ELSE breakdown

\* The token counts of line 185, before the line is reached.
NoTokens ==
    [resolved |-> FALSE, cacheCreateTokens |-> 0, cache1hTokens |-> 0, rate1h |-> 0]

\* CalculateCost, lines 169-196, for the result res of s.getPricing(model) and
\* the result long of s.longContextTier(model, usage): the breakdown returned,
\* the token counts resolveCacheTokens gave at line 185 and the 1-hour rate
\* getEphemeral1hPricing gave at line 187.
CalculateCostFrom(s, model, usage, res, long) ==
    IF res.entry.nil /\ ~Contains(ToLower(model), Marker1m)
    THEN [breakdown |-> [ZeroBreakdown EXCEPT !.HasPricing = res.found],
          tokens |-> NoTokens]
    ELSE LET entry == IF res.entry.nil THEN ZeroEntry ELSE s.pricingMap[res.entry.key]
             tokens == resolveCacheTokens(usage)
             inputCost == usage.InputTokens *
                 (IF long.useLong THEN long.tier.Input ELSE entry.InputCostPerToken)
             outputCost == usage.OutputTokens *
                 (IF long.useLong THEN long.tier.Output ELSE entry.OutputCostPerToken)
             cache5mCost == tokens.fiveMin * entry.CacheCreationInputTokenCost
             cache1hCost == tokens.oneHour * getEphemeral1hPricing(s, model)
             cacheReadCost == usage.CacheReadTokens * entry.CacheReadInputTokenCost
         IN  [breakdown |-> WithHasPricing(
                [InputCost |-> inputCost, OutputCost |-> outputCost,
                 CacheCreateCost |-> cache5mCost + cache1hCost,
                 CacheReadCost |-> cacheReadCost,
                 Ephemeral5mCost |-> cache5mCost, Ephemeral1hCost |-> cache1hCost,
                 TotalCost |-> inputCost + outputCost + (cache5mCost + cache1hCost)
                                  + cacheReadCost,
                 HasPricing |-> res.found, IsLongContext |-> long.useLong]),
              tokens |-> [resolved |-> TRUE, cacheCreateTokens |-> tokens.fiveMin,
                          cache1hTokens |-> tokens.oneHour,
                          rate1h |-> getEphemeral1hPricing(s, model)]]

\* ------------------------------------------------------------------- inputs

\* The entries a pricing JSON may hold, by key: rates to be derived, an
\* all-zero entry, explicit cache rates, one explicit cache rate of the two.
RawEntries ==
       <<"g", "p", "t", "-", "5">> :> PricingEntry(3000, 15000, 0, 0)
    @@ <<"g", "p", "t", "_", "5">> :> PricingEntry(0, 0, 0, 0)
    @@ <<"g", "p", "t", "-", "5", "-", "m", "i", "n", "i">> :> PricingEntry(1000, 2000, 5000, 100)
    @@ <<"c", "l", "a", "u", "d", "e">> :> PricingEntry(3000, 15000, 0, 300)
    @@ <<"u", "s", ".", "c", "l", "a", "u", "d", "e">> :> PricingEntry(2000, 0, 2500, 0)
    @@ <<"a", "n", "t", "h", "r", "o", "p", "i", "c", ".", "c", "l", "a", "u", "d", "e">> :> PricingEntry(800, 4000, 0, 0)

\* The pricing JSONs: at most MaxKeys of the entries.
RawTables ==
    {[key \in keySet |-> RawEntries[key]] :
        keySet \in {ks \in SUBSET DOMAIN RawEntries : Cardinality(ks) <= MaxKeys}}

\* The receivers of a call: nil (DefaultService returns it with an error) and
\* every Service NewServiceFromData can build from the JSONs.
Receivers == {NilTables} \cup UNION {NewServiceTables(raw) : raw \in RawTables}

\* The model names of the calls.
ModelNames ==
    {<<>>,
     <<"g", "p", "t", "-", "5">>,
     <<"g", "p", "t", "-", "5", "-", "c", "o", "d", "e", "x">>,
     <<"G", "P", "T", "-", "5">>,
     <<"g", "p", "t">>,
     <<"u", "s", ".", "c", "l", "a", "u", "d", "e">>,
     <<"U", "S", ".", "c", "l", "a", "u", "d", "e">>,
     <<"u", "s", ".", "a", "n", "t", "h", "r", "o", "p", "i", "c", ".", "c", "l", "a", "u", "d", "e">>,
     <<"a", "n", "t", "h", "r", "o", "p", "i", "c", ".", "c", "l", "a", "u", "d", "e">>,
     <<"e", "u", ".", "g", "p", "t", "-", "5">>,
     <<"a", "p", "a", "c", ".", "g", "p", "t", "_", "5">>,
     <<"u", "n", "k", "n", "o", "w", "n", "-", "m", "o", "d", "e", "l", "-", "x", "y", "z">>,
     <<"-">>,
     <<"c", "l", "a", "u", "d", "e", "-", "s", "o", "n", "n", "e", "t", "-", "4", "-", "2", "0", "2", "5", "0", "5", "1", "4", "[", "1", "m", "]">>,
     <<"x", "[", "1", "M", "]">>,
     <<"c", "l", "a", "u", "d", "e", "-", "3", "-", "o", "p", "u", "s">>,
     <<"C", "l", "a", "u", "d", "e", "-", "H", "a", "i", "k", "u", "-", "S", "o", "n", "n", "e", "t">>,
     <<"c", "l", "a", "u", "d", "e", "-", "s", "o", "n", "n", "e", "t", "-", "o", "p", "u", "s">>}

\* The usage snapshots of the calls: totals on both sides of the threshold,
\* cache-creation counts below, at and above the sum of the split, negative
\* counts, and snapshots without a split.
SplitCounts == (0 - 1) .. MaxSplit
Usages ==
    [InputTokens : {0, LongContextThreshold - 1, LongContextThreshold},
     OutputTokens : {0, 50},
     CacheCreateTokens : (0 - 1) .. (MaxSplit + 1),
     CacheReadTokens : {0, 1},
     CacheCreation : {NilDetail} \cup {Detail(five, one) : five, one \in SplitCounts}]

\* ------------------------------------------------------------------ actions
NoUsage ==
    [InputTokens |-> 0, OutputTokens |-> 0, CacheCreateTokens |-> 0,
     CacheReadTokens |-> 0, CacheCreation |-> NilDetail]

InitPricing ==
    /\ now = 0
    /\ cacheFile = NoCache
    /\ defaultOnce = "new"
    /\ defaultService = NilService
    /\ defaultErr = FALSE
    /\ updateMutex = [readers |-> {}, writer |-> FALSE]
    /\ lastUpdateTime = ZeroTime
    /\ updateTimer = NilTimer
    /\ timers = [i \in TimerIds |-> NoTimer]
    /\ services = <<>>
    /\ startup = [pc |-> "none", runner |-> 0]
    /\ cb = [pc |-> "idle", timer |-> NilTimer, data |-> "none", svc |-> NilService]
    /\ caller = [c \in Callers |-> IdleCaller]
    /\ stop = [pc |-> "idle", t |-> NilTimer]
    /\ hist = [ticks |-> 0]
    /\ retry = NoRetry
    /\ page = NoPage
    /\ calc \in {[pc |-> "built", s |-> s, model |-> model, usage |-> NoUsage,
                  first |-> NotFound, second |-> NotFound,
                  breakdown |-> ZeroBreakdown, tokens |-> NoTokens] :
                    s \in Receivers, model \in ModelNames}

\* entry, ok := s.getPricing(model), on a Service that is not nil.
GetPricing ==
    /\ calc.pc = "built"
    /\ ~calc.s.nil
    /\ \E res \in getPricing(calc.s, calc.model) :
          calc' = [calc EXCEPT !.pc = "first", !.first = res]
    /\ UNCHANGED <<svcVars, retry, page>>

\* The same call once more, on the same Service with the same name.
GetPricingAgain ==
    /\ calc.pc = "first"
    /\ \E res \in getPricing(calc.s, calc.model) :
          calc' = [calc EXCEPT !.pc = "second", !.second = res]
    /\ UNCHANGED <<svcVars, retry, page>>

\* s.CalculateCost(model, usage): a nil receiver and an empty model give the
\* zero breakdown; otherwise the breakdown follows from what getPricing and
\* longContextTier return.
CalculateCostCall ==
    /\ calc.pc = "built"
    /\ \E usage \in Usages :
          IF calc.s.nil \/ calc.model = EmptyName
          THEN calc' = [calc EXCEPT !.pc = "priced", !.usage = usage,
                                    !.breakdown = ZeroBreakdown]
          ELSE \E res \in getPricing(calc.s, calc.model),
                  long \in longContextTier(calc.s, calc.model, usage) :
                  LET r == CalculateCostFrom(calc.s, calc.model, usage, res, long)
                  IN  calc' = [calc EXCEPT
                                  !.pc = "priced", !.usage = usage, !.first = res,
                                  !.breakdown = r.breakdown, !.tokens = r.tokens]
    /\ UNCHANGED <<svcVars, retry, page>>

NextPricing ==
    \/ GetPricing
    \/ GetPricingAgain
    \/ CalculateCostCall

SpecPricing == InitPricing /\ [][NextPricing]_vars

\* =========================================================================
\* The retry wrapper: ShouldRetry and RetryableRequest.
\* =========================================================================

MaxRetryAttempts == 3
Second == 1
RetryInterval == 2 * Second

\* http.StatusOK, http.StatusBadGateway, http.StatusServiceUnavailable,
\* http.StatusGatewayTimeout
StatusOK == 200
StatusBadGateway == 502
StatusServiceUnavailable == 503
StatusGatewayTimeout == 504

EventStream == <<"t", "e", "x", "t", "/", "e", "v", "e", "n", "t", "-", "s", "t", "r", "e", "a", "m">>
RateLimitMarker ==
    <<"R", "a", "t", "e", " ", "l", "i", "m", "i", "t", " ", "e", "r", "r", "o", "r", ",", " ", "p", "l", "e", "a", "s", "e", " ", "w", "a", "i", "t", " ", "b", "e", "f", "o", "r", "e", " ", "t", "r", "y", "i", "n", "g", " ", "a", "g", "a", "i", "n">>
networkErrorPatterns ==
    {<<"t", "i", "m", "e", "o", "u", "t">>,
     <<"c", "o", "n", "n", "e", "c", "t", "i", "o", "n", " ", "r", "e", "f", "u", "s", "e", "d">>,
     <<"c", "o", "n", "n", "e", "c", "t", "i", "o", "n", " ", "r", "e", "s", "e", "t">>,
     <<"n", "o", " ", "s", "u", "c", "h", " ", "h", "o", "s", "t">>,
     <<"n", "e", "t", "w", "o", "r", "k", " ", "i", "s", " ", "u", "n", "r", "e", "a", "c", "h", "a", "b", "l", "e">>,
     <<"c", "o", "n", "t", "e", "x", "t", " ", "d", "e", "a", "d", "l", "i", "n", "e", " ", "e", "x", "c", "e", "e", "d", "e", "d">>}

\* A *xrequest.Response and an error: nil, or what the code reads of them.
NilResponse == [nil |-> TRUE, StatusCode |-> 0, ContentType |-> <<>>, Body |-> <<>>]
NilError == [nil |-> TRUE, msg |-> <<>>]

\* IsRateLimitError
IsRateLimitError(resp) ==
    IF resp.nil THEN FALSE
    ELSE IF resp.StatusCode # StatusOK THEN FALSE
    ELSE IF ~Contains(ToLower(resp.ContentType), EventStream) THEN FALSE
    ELSE Contains(resp.Body, RateLimitMarker)

\* IsNetworkError
IsNetworkError(err) ==
    IF err.nil THEN FALSE
    ELSE \E pattern \in networkErrorPatterns : Contains(ToLower(err.msg), pattern)

\* IsServerError
IsServerError(resp) ==
    IF resp.nil THEN FALSE
    ELSE resp.StatusCode \in {StatusBadGateway, StatusServiceUnavailable,
                              StatusGatewayTimeout}

\* A variant of ShouldRetry that looks at the response before the error.
ShouldRetryResponseFirst(resp, err) ==
    IF ~resp.nil /\ IsRateLimitError(resp) THEN [retry |-> TRUE, type |-> "rate_limit"]
    ELSE IF ~resp.nil /\ IsServerError(resp) THEN [retry |-> TRUE, type |-> "server"]
    ELSE IF IsNetworkError(err) THEN [retry |-> TRUE, type |-> "network"]
    ELSE [retry |-> FALSE, type |-> "unknown"]

\* ShouldRetry
ShouldRetry(resp, err) ==
    IF IsNetworkError(err) THEN [retry |-> TRUE, type |-> "network"]
    ELSE IF ~resp.nil /\ IsRateLimitError(resp) THEN [retry |-> TRUE, type |-> "rate_limit"]
    ELSE IF ~resp.nil /\ IsServerError(resp) THEN [retry |-> TRUE, type |-> "server"]
    ELSE [retry |-> FALSE, type |-> "unknown"]

\* ------------------------------------------------------------------- inputs

\* What a call of the request function may return: no response; a 200 with
\* each content type and body; another status with the rate-limit body.
ContentTypes ==
    {<<"t", "e", "x", "t", "/", "e", "v", "e", "n", "t", "-", "s", "t", "r", "e", "a", "m">>,
     <<"T", "e", "x", "t", "/", "E", "v", "e", "n", "t", "-", "S", "t", "r", "e", "a", "m", ";", " ", "c", "h", "a", "r", "s", "e", "t", "=", "u", "t", "f", "-", "8">>,
     <<"a", "p", "p", "l", "i", "c", "a", "t", "i", "o", "n", "/", "j", "s", "o", "n">>}
Bodies ==
    {<<"e", "v", "e", "n", "t", ":", " ", "e", "r", "r", "o", "r", " ", "d", "a", "t", "a", ":", " ", "R", "a", "t", "e", " ", "l", "i", "m", "i", "t", " ", "e", "r", "r", "o", "r", ",", " ", "p", "l", "e", "a", "s", "e", " ", "w", "a", "i", "t", " ", "b", "e", "f", "o", "r", "e", " ", "t", "r", "y", "i", "n", "g", " ", "a", "g", "a", "i", "n">>,
     <<"d", "a", "t", "a", ":", " ", "o", "k">>}
Responses ==
    {NilResponse}
    \cup [nil : {FALSE}, StatusCode : {StatusOK},
          ContentType : ContentTypes, Body : Bodies]
    \cup {[nil |-> FALSE, StatusCode |-> status, ContentType |-> EventStream,
           Body |-> body] :
             status \in {429, StatusBadGateway, StatusServiceUnavailable,
                         StatusGatewayTimeout},
             body \in {b \in Bodies : Contains(b, RateLimitMarker)}}
Errors ==
    {NilError} \cup
    [nil : {FALSE},
     msg : {<<"C", "l", "i", "e", "n", "t", ".", "T", "i", "m", "e", "o", "u", "t", " ", "e", "x", "c", "e", "e", "d", "e", "d", " ", "w", "h", "i", "l", "e", " ", "a", "w", "a", "i", "t", "i", "n", "g", " ", "h", "e", "a", "d", "e", "r", "s">>,
            <<"d", "i", "a", "l", " ", "t", "c", "p", " ", "1", "0", ".", "0", ".", "0", ".", "1", ":", "4", "4", "3", ":", " ", "c", "o", "n", "n", "e", "c", "t", ":", " ", "c", "o", "n", "n", "e", "c", "t", "i", "o", "n", " ", "r", "e", "f", "u", "s", "e", "d">>,
            <<"r", "e", "a", "d", ":", " ", "c", "o", "n", "n", "e", "c", "t", "i", "o", "n", " ", "r", "e", "s", "e", "t", " ", "b", "y", " ", "p", "e", "e", "r">>,
            <<"l", "o", "o", "k", "u", "p", " ", "a", "p", "i", ".", "e", "x", "a", "m", "p", "l", "e", ".", "c", "o", "m", ":", " ", "n", "o", " ", "s", "u", "c", "h", " ", "h", "o", "s", "t">>,
            <<"c", "o", "n", "n", "e", "c", "t", ":", " ", "n", "e", "t", "w", "o", "r", "k", " ", "i", "s", " ", "u", "n", "r", "e", "a", "c", "h", "a", "b", "l", "e">>,
            <<"c", "o", "n", "t", "e", "x", "t", " ", "d", "e", "a", "d", "l", "i", "n", "e", " ", "e", "x", "c", "e", "e", "d", "e", "d">>,
            <<"u", "n", "e", "x", "p", "e", "c", "t", "e", "d", " ", "E", "O", "F">>}]
Outcomes == [resp : Responses, err : Errors]

\* ------------------------------------------------------------------ actions
InitRetry ==
    /\ now = 0
    /\ cacheFile = NoCache
    /\ defaultOnce = "new"
    /\ defaultService = NilService
    /\ defaultErr = FALSE
    /\ updateMutex = [readers |-> {}, writer |-> FALSE]
    /\ lastUpdateTime = ZeroTime
    /\ updateTimer = NilTimer
    /\ timers = [i \in TimerIds |-> NoTimer]
    /\ services = <<>>
    /\ startup = [pc |-> "none", runner |-> 0]
    /\ cb = [pc |-> "idle", timer |-> NilTimer, data |-> "none", svc |-> NilService]
    /\ caller = [c \in Callers |-> IdleCaller]
    /\ stop = [pc |-> "idle", t |-> NilTimer]
    /\ hist = [ticks |-> 0]
    /\ calc = NoCalc
    /\ page = NoPage
    /\ retry = [pc |-> "first", attempt |-> 0,
                lastResp |-> NilResponse, lastErr |-> NilError,
                lastErrorType |-> "none",
                result |-> [resp |-> NilResponse, err |-> NilError],
                calls |-> 0, sleeps |-> 0, slept |-> 0, retried |-> 0,
                made |-> [resp |-> NilResponse, err |-> NilError],
                class |-> [retry |-> FALSE, type |-> "none"]]

\* A variant of the loop test that goes round once more.
LoopGoesOnOneMore(attempt) == attempt <= MaxRetryAttempts + 1

\* The test of the retry loop: attempt <= MaxRetryAttempts.
LoopGoesOn(attempt) == attempt <= MaxRetryAttempts

\* A variant of line 158 that keeps what the first attempt returned.
RememberFirst(last, outcome) == last

\* Line 158: lastResp, lastErr = resp, err.
Remember(last, outcome) == outcome

\* Where RetryableRequest goes when an attempt was classified retryable and
\* the loop variable is attempt: into the loop body, or past the loop to
\* return lastResp, lastErr.
LoopOrReturn(r, attempt) ==
    IF LoopGoesOn(attempt)
    THEN [r EXCEPT !.pc = "sleep", !.attempt = attempt]
    ELSE [r EXCEPT !.pc = "returned", !.attempt = attempt,
                   !.result = [resp |-> r.lastResp, err |-> r.lastErr]]

\* Lines 127-134 and 141: the first call of the request function; its result
\* is returned unless ShouldRetry asks for a retry.
FirstAttempt ==
    /\ retry.pc = "first"
    /\ \E o \in Outcomes :
          LET sr == ShouldRetry(o.resp, o.err)
              r == [retry EXCEPT !.calls = @ + 1, !.made = o, !.class = sr,
                                 !.lastResp = o.resp, !.lastErr = o.err,
                                 !.lastErrorType = sr.type]
          IN  retry' = IF ~sr.retry
                       THEN [r EXCEPT !.pc = "returned", !.result = o]
                       ELSE LoopOrReturn([r EXCEPT !.retried = @ + 1], 1)
    /\ UNCHANGED <<svcVars, calc, page>>

\* Line 145: time.Sleep(RetryInterval)
Sleep ==
    /\ retry.pc = "sleep"
    /\ retry' = [retry EXCEPT !.pc = "retry", !.sleeps = @ + 1,
                              !.slept = @ + RetryInterval]
    /\ UNCHANGED <<svcVars, calc, page>>

\* Lines 148-161: a retry; its result is returned unless ShouldRetry asks for
\* another retry, and is remembered when it does.
RetryAttempt ==
    /\ retry.pc = "retry"
    /\ \E o \in Outcomes :
          LET sr == ShouldRetry(o.resp, o.err)
              last == Remember([resp |-> retry.lastResp, err |-> retry.lastErr], o)
              r == [retry EXCEPT !.calls = @ + 1, !.made = o, !.class = sr]
          IN  retry' = IF ~sr.retry
                       THEN [r EXCEPT !.pc = "returned", !.result = o]
                       ELSE LoopOrReturn(
                               [r EXCEPT !.retried = @ + 1,
                                         !.lastResp = last.resp,
                                         !.lastErr = last.err,
                                         !.lastErrorType = sr.type],
                               retry.attempt + 1)
    /\ UNCHANGED <<svcVars, calc, page>>

NextRetry ==
    \/ FirstAttempt
    \/ Sleep
    \/ RetryAttempt

\* The goroutine that calls RetryableRequest keeps running, and the request
\* function returns from every call.
SpecRetry == InitRetry /\ [][NextRetry]_vars /\ WF_vars(NextRetry)

\* =========================================================================
\* The settings page: the import of a cc-switch config.  The page runs on one
\* thread; a handler runs without interruption up to its next await.
\* =========================================================================

\* The runs of a handler that can be in flight at once.
Handlers == 1 .. NumHandlers

\* A ConfigImportStatus | null; pending stands for
\* Boolean(status.pending_providers || status.pending_mcp).
NullStatus ==
    [nil |-> TRUE, config_exists |-> FALSE, pending |-> FALSE, config_path |-> ""]
Status(exists, pending, path) ==
    [nil |-> FALSE, config_exists |-> exists, pending |-> pending, config_path |-> path]

DefaultPath == "cc-switch/config.json"
CustomPath == "custom.json"

\* What fetchConfigImportStatus, fetchConfigImportStatusForFile and the two
\* import calls can resolve with.
DefaultStatuses ==
    {Status(FALSE, FALSE, DefaultPath), Status(TRUE, TRUE, DefaultPath),
     Status(TRUE, FALSE, DefaultPath)}
CustomStatuses ==
    {Status(TRUE, TRUE, CustomPath), Status(TRUE, FALSE, CustomPath),
     Status(TRUE, TRUE, "")}
NullResult == [nil |-> TRUE, status |-> NullStatus]
ImportResults ==
    {NullResult} \cup
    {[nil |-> FALSE, status |-> status] :
        status \in {Status(TRUE, FALSE, DefaultPath), Status(TRUE, FALSE, CustomPath)}}

\* How an import call settles: it throws, or it resolves with a result.
ImportOutcomes ==
    {[threw |-> TRUE, result |-> NullResult]} \cup
    {[threw |-> FALSE, result |-> result] : result \in ImportResults}

\* The computed values of the page.
hasCustomSelection == ~page.customImportStatus.nil
canImportDefault == ~page.importStatus.nil /\ page.importStatus.pending
canImportCustom == ~page.customImportStatus.nil /\ page.customImportStatus.pending
canImportActive == IF hasCustomSelection THEN canImportCustom ELSE canImportDefault
primaryButtonDisabled == page.importBusy \/ ~canImportActive
showImportRow == ~page.importStatus.nil \/ hasCustomSelection

\* A run of an import handler that is not in flight.
IdleHandler == [pc |-> "idle", kind |-> "none"]

InitImport ==
    /\ now = 0
    /\ cacheFile = NoCache
    /\ defaultOnce = "new"
    /\ defaultService = NilService
    /\ defaultErr = FALSE
    /\ updateMutex = [readers |-> {}, writer |-> FALSE]
    /\ lastUpdateTime = ZeroTime
    /\ updateTimer = NilTimer
    /\ timers = [i \in TimerIds |-> NoTimer]
    /\ services = <<>>
    /\ startup = [pc |-> "none", runner |-> 0]
    /\ cb = [pc |-> "idle", timer |-> NilTimer, data |-> "none", svc |-> NilService]
    /\ caller = [c \in Callers |-> IdleCaller]
    /\ stop = [pc |-> "idle", t |-> NilTimer]
    /\ hist = [ticks |-> 0]
    /\ calc = NoCalc
    /\ retry = NoRetry
    /\ page = [mount |-> "new",
               importBusy |-> FALSE,
               importStatus |-> NullStatus,
               customImportStatus |-> NullStatus,
               imports |-> [i \in Handlers |-> IdleHandler],
               uploads |-> [u \in Handlers |-> "idle"],
               settled |-> "none"]

\* onMounted: loadImportStatus() starts and awaits fetchConfigImportStatus().
onMounted ==
    /\ page.mount = "new"
    /\ page' = [page EXCEPT !.mount = "loading"]
    /\ UNCHANGED <<svcVars, calc, retry>>

\* loadImportStatus, called by onMounted, after its await: the status
\* fetched, or null when the fetch threw.
loadImportStatus ==
    /\ page.mount = "loading"
    /\ \E status \in DefaultStatuses \cup {NullStatus} :
          page' = [page EXCEPT !.mount = "done", !.importStatus = status]
    /\ UNCHANGED <<svcVars, calc, retry>>

\* handleImportClick up to its first await: past the guard it sets importBusy
\* and calls importFromCcSwitch().  A guard that fails returns at once.
handleImportClick(i) ==
    /\ ~(page.importBusy \/ page.importStatus.nil \/ ~canImportDefault)
    /\ page' = [page EXCEPT !.importBusy = TRUE,
                            !.imports[i] = [pc |-> "importing", kind |-> "default"]]

\* handleConfirmCustomImport up to its first await: past the guard it sets
\* importBusy and calls importFromCustomFile(path).
handleConfirmCustomImport(i) ==
    LET path == page.customImportStatus.config_path
    IN  /\ ~(page.customImportStatus.nil \/ path = "" \/ page.importBusy
               \/ ~canImportCustom)
        /\ page' = [page EXCEPT !.importBusy = TRUE,
                                !.imports[i] = [pc |-> "importing", kind |-> "custom"]]

\* A click on the primary button, which is shown with the import row and
\* disabled while primaryButtonDisabled: handlePrimaryImport.
handlePrimaryImport ==
    /\ showImportRow
    /\ ~primaryButtonDisabled
    /\ \E i \in Handlers :
          /\ page.imports[i].pc = "idle"
          /\ IF hasCustomSelection
             THEN handleConfirmCustomImport(i)
             ELSE handleImportClick(i)
    /\ UNCHANGED <<svcVars, calc, retry>>

\* processImportResult for a result that is not null, up to its await of
\* loadImportStatus(): the status of the result replaces the custom status
\* when it is for the selected file, the default status otherwise.
processImportResult(result) ==
    IF hasCustomSelection
       /\ result.status.config_path = page.customImportStatus.config_path
    THEN [page EXCEPT !.customImportStatus = result.status]
    ELSE [page EXCEPT !.importStatus = result.status]

\* A variant of the end of the two handlers that leaves importBusy as it is
\* when the handler caught an error.
SettleBusyOnThrow(p, i, threw) ==
    [p EXCEPT !.importBusy = IF threw THEN @ ELSE FALSE,
              !.imports[i] = IdleHandler,
              !.settled = IF threw THEN "threw" ELSE "ok"]

\* The end of handleImportClick and handleConfirmCustomImport: after the try
\* block or the catch block, finally sets importBusy to false.
Settle(p, i, threw) ==
    [p EXCEPT !.importBusy = FALSE,
              !.imports[i] = IdleHandler,
              !.settled = IF threw THEN "threw" ELSE "ok"]

\* The import call of a handler settles.  When it throws, catch and finally
\* run; a null result leaves processImportResult at once and finally runs;
\* any other result is processed up to the await of loadImportStatus().
ImportReturns(i) ==
    /\ page.imports[i].pc = "importing"
    /\ \E o \in ImportOutcomes :
          page' = IF o.threw THEN Settle(page, i, TRUE)
                  ELSE IF o.result.nil THEN Settle(page, i, FALSE)
                  ELSE [processImportResult(o.result) EXCEPT
                           !.imports[i].pc = "reloading"]
    /\ UNCHANGED <<svcVars, calc, retry>>

\* The loadImportStatus() of processImportResult settles (it catches its own
\* error and sets the status to null), and the handler runs finally.
ReloadReturns(i) ==
    /\ page.imports[i].pc = "reloading"
    /\ \E status \in DefaultStatuses \cup {NullStatus} :
          page' = Settle([page EXCEPT !.importStatus = status], i, FALSE)
    /\ UNCHANGED <<svcVars, calc, retry>>

\* handleUploadClick up to its await of Dialogs.OpenFile.
handleUploadClick(u) ==
    /\ ~page.importBusy
    /\ page.uploads[u] = "idle"
    /\ page' = [page EXCEPT !.uploads[u] = "dialog"]

\* clearCustomSelection
clearCustomSelection ==
    page' = [page EXCEPT !.customImportStatus = NullStatus]

\* A click on the secondary button, which is shown with the import row and
\* disabled while importBusy: handleSecondaryImportAction.
handleSecondaryImportAction ==
    /\ showImportRow
    /\ ~page.importBusy
    /\ IF hasCustomSelection
       THEN clearCustomSelection
       ELSE \E u \in Handlers : handleUploadClick(u)
    /\ UNCHANGED <<svcVars, calc, retry>>

\* A click on the third button, shown with a custom selection and disabled
\* while importBusy: handleUploadClick.
ReuploadClick ==
    /\ showImportRow
    /\ hasCustomSelection
    /\ ~page.importBusy
    /\ \E u \in Handlers : handleUploadClick(u)
    /\ UNCHANGED <<svcVars, calc, retry>>

\* The file dialog of handleUploadClick settles: with a path, and the handler
\* calls fetchConfigImportStatusForFile; with no path or an error, and the
\* handler ends.
DialogReturns(u) ==
    /\ page.uploads[u] = "dialog"
    /\ \E picked \in BOOLEAN :
          page' = [page EXCEPT !.uploads[u] = IF picked THEN "fetching" ELSE "idle"]
    /\ UNCHANGED <<svcVars, calc, retry>>

\* fetchConfigImportStatusForFile settles: the status becomes the custom
\* selection; an error leaves the selection as it was.
UploadStatusReturns(u) ==
    /\ page.uploads[u] = "fetching"
    /\ \E status \in CustomStatuses \cup {NullStatus} :
          page' = [page EXCEPT !.uploads[u] = "idle",
                               !.customImportStatus = IF status.nil THEN @ ELSE status]
    /\ UNCHANGED <<svcVars, calc, retry>>

NextImport ==
    \/ onMounted
    \/ loadImportStatus
    \/ handlePrimaryImport
    \/ \E i \in Handlers : ImportReturns(i)
    \/ \E i \in Handlers : ReloadReturns(i)
    \/ handleSecondaryImportAction
    \/ ReuploadClick
    \/ \E u \in Handlers : DialogReturns(u)
    \/ \E u \in Handlers : UploadStatusReturns(u)

SpecImport == InitImport /\ [][NextImport]_vars

\* ------------------------------------------------------------------ claims

\* A caller that holds what a DefaultService call returned.
Returned(c) == caller[c].pc \in {"got", "tiers", "done"}

\* C1: startup never fails: once DefaultService's startup is over there is a
\* usable service and no error, whatever the cache and the remote gave.
C1_StartupNeverFails ==
    defaultOnce = "done" => (~defaultErr /\ defaultService # NilService)

\* C2: a refresh tick that fails (the fetch fails, or the bytes do not build
\* into a table) leaves the active table pointer, the last-update timestamp
\* and the disk cache as they were when the tick began.
C2_FailedTickKeepsState ==
    (hist.ticks > 0 /\ cb.pc \in {"rearm", "idle"} /\ hist.tickOutcome # "remote")
        => <<defaultService, lastUpdateTime, cacheFile>> = hist.snap

\* A second tick has failed after the first one swapped a table in.
C2_Witness ==
    /\ hist.ticks = 2 /\ hist.swaps = 1 /\ cb.pc = "idle"
    /\ hist.tickOutcome = "badentries"
    /\ defaultService # NilService

\* C3: refresh ticks recur: as long as StopPeriodicUpdate has not been called,
\* a tick that has run to its end leaves the next one pending on an armed timer.
C3_TicksRecur ==
    (hist.ticks > 0 /\ cb.pc = "idle" /\ stop.pc = "idle")
        => \E t \in TimerIds : timers[t].state = "armed"

C5_OneTablePerCall ==
    /\ [](\A c \in Callers : /\ Cardinality(caller[c].seen) <= 1
                             /\ caller[c].seen \subseteq {caller[c].svc})
    /\ [][\A i \in 1 .. Len(services) :
              Len(services') >= i /\ services'[i] = services[i]]_vars

\* A swap has completed between the first and the later lookups of a call.
C5_Witness ==
    \E c \in Callers :
        /\ caller[c].pc = "tiers"
        /\ caller[c].atStart = caller[c].svc
        /\ defaultService # caller[c].svc

C7_StartupOnce ==
    /\ hist.startupRuns <= 1
    /\ hist.scheduleRuns <= 1
    /\ \A c \in Callers :
          caller[c].pc \in {"rlock", "rlocked", "got", "tiers", "done"}
              => defaultOnce = "done"

\* Every caller has got its result from the one startup.
C7_Witness ==
    /\ \A c \in Callers : Returned(c)
    /\ hist.startupRuns = 1 /\ hist.scheduleRuns = 1

\* C8: once StopPeriodicUpdate, called after the refresh was scheduled, has
\* returned, no timer is armed and no tick has started since.
C8_NoTimerAfterStop ==
    stop.pc = "returned"
        => /\ \A t \in TimerIds : timers[t].state # "armed"
           /\ ~hist.lateTick

\* The order of the origins at startup: the cache is consulted first, the
\* remote endpoint exactly when the cache was rejected, and the embedded bundle
\* is used exactly when the remote fetch failed too.
OriginsInOrder ==
    /\ hist.consulted[1] = "cache"
    /\ hist.origin = hist.consulted[Len(hist.consulted)]
    /\ Len(hist.consulted) >= 2 <=> hist.origin # "cache"
    /\ Len(hist.consulted) >= 2 => hist.consulted[2] = "remote"
    /\ hist.origin = "embedded"
          <=> (hist.origin # "cache" /\ hist.outcome = "failed")

\* C9 as stated: the origins are consulted in order, and the cache is accepted
\* only when its timestamp is less than 24 hours old.
C9_OriginsInOrderUnderADay ==
    hist.origin # "none"
        => /\ OriginsInOrder
           /\ hist.origin = "cache" => hist.cacheAge < updateInterval

\* C9 amended: the origins are consulted in order, and a cache file that can
\* be read and parsed is accepted exactly when its timestamp is at most 24
\* hours old.
C9_OriginsInOrderWithinADay ==
    hist.origin # "none"
        => /\ OriginsInOrder
           /\ hist.origin = "cache"
                 <=> (hist.cacheFound.kind = "ok" /\ hist.cacheAge <= updateInterval)

\* Startup has accepted a cache that is exactly 24 hours old.
C9_Witness ==
    hist.origin = "cache" /\ hist.cacheAge = updateInterval

\* C10 as stated: the first tick is scheduled after the time that remains of
\* the 24 hours, and at once (within the minute) when the last update is
\* unknown or 24 hours old or older.
C10_FirstTickAtOnceWhenUnknown ==
    hist.scheduleRuns > 0 =>
        LET delay == timers[1].deadline - hist.schedNow
            elapsed == hist.schedNow - hist.schedLast.at
        IN  IF hist.schedLast.isZero \/ elapsed >= updateInterval
            THEN delay <= Minute
            ELSE delay = updateInterval - elapsed

\* C10 amended: the first tick is scheduled a full 24 hours ahead when the
\* last update is unknown, which is exactly when startup used the embedded
\* bundle; one minute ahead when the last update is 24 hours old or older;
\* and otherwise after the time that remains of the 24 hours.
C10_FirstTickADayWhenUnknown ==
    hist.scheduleRuns > 0 =>
        LET delay == timers[1].deadline - hist.schedNow
            elapsed == hist.schedNow - hist.schedLast.at
        IN  /\ hist.schedLast.isZero <=> hist.origin = "embedded"
            /\ IF hist.schedLast.isZero THEN delay = updateInterval
               ELSE IF elapsed >= updateInterval THEN delay = Minute
               ELSE delay = updateInterval - elapsed

\* Startup used the embedded bundle and the first tick is a day ahead.
C10_Witness ==
    /\ hist.scheduleRuns > 0
    /\ hist.origin = "embedded"
    /\ timers[1].deadline - hist.schedNow = updateInterval

\* C11: the active table pointer is the only mutable state shared between the
\* goroutines once startup is over, and every access to shared mutable state
\* is made under updateMutex: a caller reads the pointer holding the read
\* lock, the pointer, the stamp and the timer variable change only in a step
\* of the holder of the write lock, and the lock never has a writer together
\* with a reader.
C11_SharedStateUnderLock ==
    [][/\ ~(updateMutex'.writer /\ updateMutex'.readers # {})
       /\ \A c \in Callers :
             (caller[c].pc = "rlocked" /\ caller'[c].pc = "got")
                 => c \in updateMutex.readers
       /\ (defaultOnce = "done"
              /\ <<defaultService, lastUpdateTime, updateTimer>>'
                     # <<defaultService, lastUpdateTime, updateTimer>>)
                 => updateMutex.writer]_vars

\* C12: a failed save to the disk cache changes nothing in memory.  At
\* startup from the remote endpoint the stamp is the time of the fetch and
\* the service and error are those NewServiceFromData gives for the fetched
\* bytes, and a refresh tick that reaches the swap installs the table it
\* built and stamps the time, whether saveToCache succeeds or fails.
C12_SaveFailureKeepsMemory ==
    [][/\ (startup.pc = "new" /\ hist'.origin = "remote")
             => /\ lastUpdateTime' = TimeAt(now)
                /\ defaultService' = NewServiceFromData(services, hist'.outcome).svc
                /\ defaultErr' = NewServiceFromData(services, hist'.outcome).err
       /\ (cb.pc = "swap" /\ cb'.pc # "swap")
             => /\ defaultService' = cb.svc
                /\ lastUpdateTime' = TimeAt(now)]_vars

\* A tick has swapped its table in and its save has failed: the cache file
\* does not carry the time of the swap.
C12_Witness ==
    /\ hist.swaps >= 1 /\ cb.pc \in {"rearm", "idle"}
    /\ hist.tickOutcome = "remote"
    /\ defaultService = hist.installed[Len(hist.installed)]
    /\ lastUpdateTime = TimeAt(now)
    /\ cacheFile.kind # "ok" \/ cacheFile.timestamp # now

\* C24: the delay before the first periodic refresh never exceeds 24 hours,
\* whatever timestamp the disk cache held at startup, a timestamp that lies
\* in the future included.
C24_FirstDelayAtMostADay ==
    hist.scheduleRuns > 0 => timers[1].deadline - hist.schedNow <= updateInterval

\* ------------------------------------------------ claims about the pricing

\* C13: name resolution is idempotent: two getPricing calls on the same table
\* with the same name return the same entry and the same found flag, also
\* when the name is resolved by the substring scan and several keys match.
C13_ResolutionIdempotent ==
    calc.pc = "second" => calc.second = calc.first

\* What each step of the fallback matches, in order: the exact key, the alias
\* of gpt-5-codex, the name without its region prefix, that name without the
\* provider prefix, the key of the normalized index, the keys of the scan.
StepHits(s, model) ==
    LET keys == DOMAIN s.pricingMap
        withoutRegion == stripRegionPrefix(model)
    IN  <<{model} \cap keys,
          IF model = Gpt5Codex THEN {Gpt5} \cap keys ELSE {},
          {withoutRegion} \cap keys,
          {TrimPrefix(withoutRegion, AnthropicPrefix)} \cap keys,
          {s.normalized[n] : n \in {normalizeName(model)} \cap DOMAIN s.normalized},
          ScanHits(s, model)>>

\* The result is an entry of the earliest step that matches, and not-found
\* when no step matches.
FirstHitWins(s, model, res) ==
    LET hits == StepHits(s, model)
        matching == {i \in 1 .. Len(hits) : hits[i] # {}}
    IN  IF matching = {} THEN res = NotFound
        ELSE LET earliest == CHOOSE i \in matching : \A j \in matching : i <= j
             IN  /\ res.found
                 /\ ~res.entry.nil
                 /\ res.entry.key \in hits[earliest]

\* C14 as stated: getPricing returns the entry of the earliest matching step
\* of the ordered fallback, for every name.
C14_FirstHitWins ==
    calc.pc \in {"first", "second"}
        => FirstHitWins(calc.s, calc.model, calc.first)

\* C14 amended: the empty name returns not-found whatever the table holds;
\* every other name returns the entry of the earliest matching step, and
\* not-found when no step matches.
C14_FirstHitWinsForNonEmptyNames ==
    calc.pc \in {"first", "second"}
        => IF calc.model = EmptyName THEN calc.first = NotFound
           ELSE FirstHitWins(calc.s, calc.model, calc.first)

\* A name has been resolved by stripping its region prefix although the
\* normalized index holds its normalized form for another key.
C14_Witness ==
    /\ calc.pc = "first"
    /\ calc.first.found
    /\ calc.first.entry.key = stripRegionPrefix(calc.model)
    /\ calc.first.entry.key # calc.model
    /\ normalizeName(calc.model) \in DOMAIN calc.s.normalized

\* The total of input tokens CalculateCost compares with the threshold.
TotalInput(usage) ==
    usage.InputTokens + usage.CacheCreateTokens + usage.CacheReadTokens

\* C15: the long-context tier applies exactly when the name carries the [1m]
\* marker, the total of input, cache-creation and cache-read tokens is
\* strictly above 200000 and the tier table is not empty; then the input and
\* output costs use the rates of a tier, and otherwise those of the entry.
C15_LongContextStrictlyAbove ==
    calc.pc = "priced" =>
        LET u == calc.usage
            b == calc.breakdown
            applies == /\ ~calc.s.nil
                       /\ Contains(ToLower(calc.model), Marker1m)
                       /\ TotalInput(u) > LongContextThreshold
                       /\ DOMAIN buildLongContextPricing # {}
        IN  /\ b.IsLongContext <=> applies
            /\ applies =>
                  \E key \in DOMAIN buildLongContextPricing :
                      /\ b.InputCost = u.InputTokens * buildLongContextPricing[key].Input
                      /\ b.OutputCost = u.OutputTokens * buildLongContextPricing[key].Output
            /\ (~applies /\ ~calc.first.entry.nil) =>
                  LET entry == calc.s.pricingMap[calc.first.entry.key]
                  IN  /\ b.InputCost = u.InputTokens * entry.InputCostPerToken
                      /\ b.OutputCost = u.OutputTokens * entry.OutputCostPerToken

\* A call with a total of 200001 tokens has been priced at the tier rates.
C15_Witness ==
    /\ calc.pc = "priced"
    /\ TotalInput(calc.usage) = LongContextThreshold + 1
    /\ calc.breakdown.IsLongContext
    /\ calc.breakdown.InputCost > 0

Max(a, b) == IF a >= b THEN a ELSE b

\* C18: the cache-creation tokens are split as specified: without a detail
\* all of CacheCreateTokens is 5-minute; with a detail of non-negative counts
\* the 1-hour count is Ephemeral1hTokens and the 5-minute count is
\* Ephemeral5mTokens plus what CacheCreateTokens holds beyond the two, so
\* the two add up to the larger of CacheCreateTokens and the sum of the split.
C18_CacheTokenSplit ==
    (calc.pc = "priced" /\ calc.tokens.resolved) =>
        LET u == calc.usage
            five == u.CacheCreation.Ephemeral5mTokens
            one == u.CacheCreation.Ephemeral1hTokens
        IN  IF u.CacheCreation.nil
            THEN /\ calc.tokens.cacheCreateTokens = u.CacheCreateTokens
                 /\ calc.tokens.cache1hTokens = 0
            ELSE (five >= 0 /\ one >= 0) =>
                 /\ calc.tokens.cache1hTokens = one
                 /\ calc.tokens.cacheCreateTokens
                       = five + Max(0, u.CacheCreateTokens - five - one)
                 /\ calc.tokens.cacheCreateTokens + calc.tokens.cache1hTokens
                       = Max(u.CacheCreateTokens, five + one)

\* A call whose aggregate count exceeds its split has been priced.
C18_Witness ==
    /\ calc.pc = "priced" /\ calc.tokens.resolved
    /\ ~calc.usage.CacheCreation.nil
    /\ calc.usage.CacheCreation.Ephemeral5mTokens >= 0
    /\ calc.usage.CacheCreation.Ephemeral1hTokens > 0
    /\ calc.usage.CacheCreateTokens > calc.usage.CacheCreation.Ephemeral5mTokens
                                         + calc.usage.CacheCreation.Ephemeral1hTokens

\* C19: the 5-minute and 1-hour cache-creation token counts used for pricing
\* are never negative, with or without a split and whatever the token fields.
C19_CacheTokensNonNegative ==
    (calc.pc = "priced" /\ calc.tokens.resolved)
        => /\ calc.tokens.cacheCreateTokens >= 0
           /\ calc.tokens.cache1hTokens >= 0

\* C20: in every breakdown HasPricing is true exactly when an entry was
\* resolved or the total is positive; the total is the sum of the input,
\* output, cache-creation and cache-read costs; the cache-creation cost is
\* the sum of the 5-minute and the 1-hour cost; and a name that is not
\* resolved and carries no [1m] marker gets the all-zero breakdown.
C20_BreakdownConsistent ==
    calc.pc = "priced" =>
        LET b == calc.breakdown
        IN  /\ b.HasPricing <=> (~calc.first.entry.nil \/ b.TotalCost > 0)
            /\ b.TotalCost = b.InputCost + b.OutputCost + b.CacheCreateCost
                                 + b.CacheReadCost
            /\ b.CacheCreateCost = b.Ephemeral5mCost + b.Ephemeral1hCost
            /\ (calc.first.entry.nil /\ ~Contains(ToLower(calc.model), Marker1m))
                  => b = ZeroBreakdown

\* A name with the marker that no step resolved has got a positive total, and
\* HasPricing with it.
C20_Witness ==
    /\ calc.pc = "priced"
    /\ calc.first.entry.nil
    /\ calc.breakdown.TotalCost > 0
    /\ calc.breakdown.HasPricing

\* C21: the 1-hour cache rate of a priced call is the entry of the 1-hour
\* table for the exact model name when there is one; otherwise the family
\* rate chosen by substring of the lower-cased name, opus before sonnet before
\* haiku; otherwise 0.  The 1-hour cost is the 1-hour tokens at that rate.
C21_OneHourRate ==
    (calc.pc = "priced" /\ calc.tokens.resolved) =>
        LET lower == ToLower(calc.model)
            rate == calc.tokens.rate1h
            opus == Contains(lower, Opus)
            sonnet == Contains(lower, Sonnet)
            haiku == Contains(lower, Haiku)
        IN  /\ calc.model \in DOMAIN buildEphemeral1hPricing
                => rate = buildEphemeral1hPricing[calc.model]
            /\ calc.model \notin DOMAIN buildEphemeral1hPricing
                => /\ opus => rate = 30000
                   /\ (~opus /\ sonnet) => rate = 6000
                   /\ (~opus /\ ~sonnet /\ haiku) => rate = 1600
                   /\ (~opus /\ ~sonnet /\ ~haiku) => rate = 0
            /\ calc.breakdown.Ephemeral1hCost = calc.tokens.cache1hTokens * rate

\* A call for a name outside the 1-hour table that holds "Haiku" before
\* "Sonnet", in capitals, has priced 1-hour tokens at the sonnet rate.
C21_Witness ==
    /\ calc.pc = "priced" /\ calc.tokens.resolved
    /\ calc.model \notin DOMAIN buildEphemeral1hPricing
    /\ calc.model # ToLower(calc.model)
    /\ Contains(ToLower(calc.model), Haiku)
    /\ Contains(ToLower(calc.model), Sonnet)
    /\ calc.tokens.cache1hTokens > 0
    /\ calc.tokens.rate1h = 6000
    /\ calc.breakdown.Ephemeral1hCost = 6000 * calc.tokens.cache1hTokens

\* C22: in every table NewServiceFromData builds, an entry with input rate
\* X > 0 and no cache-creation rate in the JSON has the creation rate 1.25 X,
\* one with no cache-read rate has the read rate 0.1 X, and a non-zero cache
\* rate of the JSON is kept; no call changes the table it prices against.
C22_DerivedCacheRates ==
    /\ [](~calc.s.nil =>
            \A key \in DOMAIN calc.s.pricingMap :
               LET raw == RawEntries[key]
                   entry == calc.s.pricingMap[key]
                   X == raw.InputCostPerToken
               IN  /\ entry.InputCostPerToken = X
                   /\ entry.OutputCostPerToken = raw.OutputCostPerToken
                   /\ (X > 0 /\ raw.CacheCreationInputTokenCost = 0)
                         => entry.CacheCreationInputTokenCost * 100 = 125 * X
                   /\ (X > 0 /\ raw.CacheReadInputTokenCost = 0)
                         => entry.CacheReadInputTokenCost * 10 = X
                   /\ raw.CacheCreationInputTokenCost # 0
                         => entry.CacheCreationInputTokenCost
                               = raw.CacheCreationInputTokenCost
                   /\ raw.CacheReadInputTokenCost # 0
                         => entry.CacheReadInputTokenCost = raw.CacheReadInputTokenCost)
    /\ [][calc'.s = calc.s]_vars

\* A call has priced cache-creation and cache-read tokens against an entry
\* whose JSON gave neither cache rate, at the two derived rates.
C22_Witness ==
    /\ calc.pc = "priced" /\ calc.tokens.resolved
    /\ ~calc.first.entry.nil
    /\ LET raw == RawEntries[calc.first.entry.key]
       IN  /\ raw.InputCostPerToken > 0
           /\ raw.CacheCreationInputTokenCost = 0
           /\ raw.CacheReadInputTokenCost = 0
           /\ calc.tokens.cacheCreateTokens > 0
           /\ calc.usage.CacheReadTokens > 0
           /\ calc.breakdown.Ephemeral5mCost * 100
                 = calc.tokens.cacheCreateTokens * 125 * raw.InputCostPerToken
           /\ calc.breakdown.CacheReadCost * 10
                 = calc.usage.CacheReadTokens * raw.InputCostPerToken

\* Every value of the normalized index is a key of the pricing map whose
\* normalized form is the index key.
IndexPointsAtKeys(s) ==
    \A n \in DOMAIN s.normalized :
        /\ s.normalized[n] \in DOMAIN s.pricingMap
        /\ normalizeName(s.normalized[n]) = n

\* C25 as stated: on every table NewServiceFromData builds the normalized
\* index points at keys of the pricing map, getPricing returns found = true
\* exactly with an entry that is not nil, and CalculateCost never reports
\* HasPricing with a missing entry.
C25_FoundIffEntry ==
    /\ ~calc.s.nil => IndexPointsAtKeys(calc.s)
    /\ calc.pc \in {"first", "second", "priced"}
          => (calc.first.found <=> ~calc.first.entry.nil)
    /\ calc.pc = "second" => (calc.second.found <=> ~calc.second.entry.nil)
    /\ (calc.pc = "priced" /\ calc.breakdown.HasPricing) => ~calc.first.entry.nil

\* C25 amended: the index points at keys and found = true comes exactly with
\* an entry that is not nil; CalculateCost reports HasPricing with a missing
\* entry only for a name with the [1m] marker whose total cost is positive.
C25_FoundIffEntryOrMarkedTotal ==
    /\ ~calc.s.nil => IndexPointsAtKeys(calc.s)
    /\ calc.pc \in {"first", "second", "priced"}
          => (calc.first.found <=> ~calc.first.entry.nil)
    /\ calc.pc = "second" => (calc.second.found <=> ~calc.second.entry.nil)
    /\ (calc.pc = "priced" /\ calc.breakdown.HasPricing /\ calc.first.entry.nil)
          => /\ Contains(ToLower(calc.model), Marker1m)
             /\ calc.breakdown.TotalCost > 0

\* A call has been priced with the entry the normalized index gave for a name
\* that no earlier step of the fallback matches.
C25_Witness ==
    /\ calc.pc = "priced"
    /\ ~calc.s.nil
    /\ StepHits(calc.s, calc.model)[1] = {}
    /\ StepHits(calc.s, calc.model)[2] = {}
    /\ StepHits(calc.s, calc.model)[3] = {}
    /\ StepHits(calc.s, calc.model)[4] = {}
    /\ normalizeName(calc.model) \in DOMAIN calc.s.normalized
    /\ calc.first = Found(EntryOf(calc.s.normalized[normalizeName(calc.model)]))
    /\ calc.breakdown.HasPricing
    /\ calc.breakdown.TotalCost > 0

\* ------------------------------------------- claims about the retry wrapper

\* C16: RetryableRequest calls the request function at least once and at most
\* 4 times (the first attempt and at most 3 retries), sleeps the fixed
\* interval exactly once before each retry and never after the last attempt,
\* and returns.
C16_RetriesBounded ==
    /\ [](/\ retry.calls <= 4
          /\ retry.calls <= 1 + MaxRetryAttempts
          /\ retry.slept = retry.sleeps * RetryInterval
          /\ retry.pc = "sleep" => retry.sleeps = retry.calls - 1
          /\ retry.pc = "retry" => retry.sleeps = retry.calls
          /\ retry.pc = "returned" => /\ retry.calls >= 1
                                      /\ retry.sleeps = retry.calls - 1)
    /\ <>(retry.pc = "returned")

\* A call has returned after the first attempt and three retries.
C16_Witness ==
    retry.pc = "returned" /\ retry.calls = 4 /\ retry.sleeps = 3

\* C17: RetryableRequest returns the response and error of the first attempt
\* ShouldRetry does not ask to retry, which is the last attempt it makes; when
\* every attempt is to be retried it returns those of the last attempt made.
C17_ReturnsLastAttemptMade ==
    retry.pc = "returned" =>
        /\ retry.result = retry.made
        /\ IF ShouldRetry(retry.made.resp, retry.made.err).retry
           THEN /\ retry.retried = retry.calls
                /\ retry.calls = 1 + MaxRetryAttempts
           ELSE retry.retried = retry.calls - 1

\* Every attempt was to be retried and the call has returned the last one.
C17_Witness ==
    /\ retry.pc = "returned"
    /\ retry.retried = retry.calls
    /\ retry.result = retry.made
    /\ ~retry.result.resp.nil

\* C23: ShouldRetry asks for a retry exactly when the error matches a
\* network-error pattern, or the response is a 200 with an event-stream
\* content type and the rate-limit marker in its body, or the response status
\* is 502, 503 or 504.  The error is looked at first, whatever the response
\* is; no response with no error is not retried; an attempt that is not to be
\* retried is returned.
C23_ShouldRetryClassifies ==
    retry.calls > 0 =>
        LET resp == retry.made.resp
            err == retry.made.err
            network == /\ ~err.nil
                       /\ \E pattern \in networkErrorPatterns :
                             Contains(ToLower(err.msg), pattern)
            rateLimit == /\ ~resp.nil
                         /\ resp.StatusCode = 200
                         /\ Contains(ToLower(resp.ContentType), EventStream)
                         /\ Contains(resp.Body, RateLimitMarker)
            server == ~resp.nil /\ resp.StatusCode \in {502, 503, 504}
        IN  /\ retry.class.retry <=> (network \/ rateLimit \/ server)
            /\ network => retry.class.type = "network"
            /\ (~network /\ rateLimit) => retry.class.type = "rate_limit"
            /\ (~network /\ ~rateLimit /\ server) => retry.class.type = "server"
            /\ (resp.nil /\ err.nil) => ~retry.class.retry
            /\ ~retry.class.retry => retry.pc = "returned"

\* An attempt that came back with a 502 response and a network error has been
\* classified as a network error and is to be retried.
C23_Witness ==
    /\ retry.calls > 0
    /\ ~retry.made.resp.nil
    /\ retry.made.resp.StatusCode = StatusBadGateway
    /\ IsNetworkError(retry.made.err)
    /\ retry.class = [retry |-> TRUE, type |-> "network"]
    /\ retry.pc = "sleep"

\* ------------------------------------------- claims about the settings page

\* The runs of an import handler between the assignment importBusy = true
\* and their finally block.
ImportsInFlight == {i \in Handlers : page.imports[i].pc # "idle"}

\* C26: under any sequence of clicks at most one import (importFromCcSwitch
\* or importFromCustomFile, with the processing of its result) is in flight,
\* importBusy is true exactly while one is in flight, and importBusy is false
\* again when the import has ended, whether it succeeded or threw.
C26_OneImportAtATime ==
    /\ [](/\ Cardinality(ImportsInFlight) <= 1
          /\ page.importBusy <=> ImportsInFlight # {})
    /\ [][(ImportsInFlight # {} /\ ImportsInFlight' = {}) => ~page.importBusy']_vars

\* An import has thrown and has ended: none is in flight and importBusy is
\* false again, with the import still offered.
C26_Witness ==
    /\ page.settled = "threw"
    /\ ImportsInFlight = {}
    /\ ~page.importBusy
    /\ ~primaryButtonDisabled

====
